---------------------------- MODULE Spec2Model ----------------------------
(***************************************************************************)
(* A model of the time-tots clock toy: the draggable analog clock          *)
(* (AnalogClock), the digital readout (DigitalClock), the quiz controller  *)
(* (App) and the AI service wrapper (geminiService).                       *)
(*                                                                         *)
(* A pointer angle is a real number of degrees in [0,360).  The model      *)
(* draws it from the grid of multiples of 1/AngleRes degree: the integer a *)
(* stands for the angle a/AngleRes.                                        *)
(***************************************************************************)
EXTENDS Integers, Sequences, FiniteSets

VARIABLES
    totalMinutes,     \* App state: minutes since midnight
    mode,             \* App state: "EXPLORE" or "QUIZ"
    currentQuestion,  \* App state: a QuizQuestion or NULL
    feedback,         \* App state: the feedback text
    isLoading,        \* App state: the loading flag
    isCorrect,        \* App state: the correct flag
    dragState,        \* AnalogClock state: [isDragging, handType]
    questionReqs,     \* generateTimeQuestion calls awaited by startQuiz
    checkReqs,        \* checkAnswer calls awaited by submitAnswer
    lastOp,           \* history: the handler or continuation that ran last
    mins,             \* history: the candidate minute of the last minute-hand move
    adjust,           \* history: what the crossing heuristic added in that move
    lastResp,         \* history: the AI response consumed by the last continuation
    normIn,           \* input of the normalisation steps applied in isolation
    normOut,          \* their results
    pending           \* the angle of a pointer-move event dispatched and not yet handled

vars == <<totalMinutes, mode, currentQuestion, feedback, isLoading, isCorrect,
          dragState, questionReqs, checkReqs, lastOp, mins, adjust, lastResp,
          normIn, normOut, pending>>

appVars == <<mode, currentQuestion, isLoading, questionReqs, checkReqs, lastResp>>
normVars == <<normIn, normOut>>

\* null, for a hand type
NULL == "null"
\* null, for a question
NoQuestion == [isNull |-> TRUE]
\* no candidate minute: the last handler was not a minute-hand move
NoMins == 0 - 1
\* no pointer-move event is waiting
NoAngle == 0 - 1

---------------------------------------------------------------------------
(* Bounds of the model *)

\* grid points per degree of pointer angle
AngleRes == 4
\* the normalisation steps are applied in isolation to -NormRange..NormRange
NormRange == 3000
\* at most this many requests of one kind are outstanding at once
MaxPending == 2

(* Program constants *)

MinutesPerDay == 1440
HalfDay == 720
MinutesPerHour == 60
DegreesPerMinute == 6
FullCircle == 360
Tolerance == 2
INITIAL_TIME == 10 * 60 + 10

Angles == 0 .. (FullCircle * AngleRes - 1)

---------------------------------------------------------------------------
(* JavaScript arithmetic *)

Abs(x) == IF x < 0 THEN -x ELSE x
Min(x, y) == IF x <= y THEN x ELSE y

\* JavaScript's % : the remainder takes the sign of the dividend
JsRem(x, n) == IF x >= 0 THEN x % n ELSE -((-x) % n)

\* Math.floor(x / n) for n > 0
FloorDiv(x, n) == x \div n

\* Math.round(p / q) for q > 0: the nearest integer, a tie going up
MathRound(p, q) == (2 * p + q) \div (2 * q)

---------------------------------------------------------------------------
(* AnalogClock: the drag handlers *)

\* the hour branch's "Wrap fix" without its subtraction
WrapFixNone(x) == x

\* "Wrap fix" of the hour branch
WrapFix(x) == IF x >= MinutesPerDay THEN x - MinutesPerDay ELSE x

\* "Normalize 24h" of the minute branch
Normalize24h(x) ==
    LET y == IF x < 0 THEN x + MinutesPerDay ELSE x
    IN  IF y >= MinutesPerDay THEN y - MinutesPerDay ELSE y

\* the candidate minute without "if (mins === 60) mins = 0"
CandidateMinuteNoReset(a) == MathRound(a, DegreesPerMinute * AngleRes)

\* let mins = Math.round(angle / 6); if (mins === 60) mins = 0;
CandidateMinute(a) ==
    LET m == MathRound(a, DegreesPerMinute * AngleRes)
    IN  IF m = 60 THEN 0 ELSE m

\* the minute branch without the crossing heuristic: only the minute changes
CrossingNone(oldMins, m) == 0

\* the crossing heuristic applied before normalisation
Crossing(oldMins, m) ==
    IF oldMins > 45 /\ m < 15 THEN MinutesPerHour
    ELSE IF oldMins < 15 /\ m > 45 THEN -MinutesPerHour
    ELSE 0

\* the minute branch of handlePointerMove: the value passed to onTimeChange
MinuteHandTime(tm, a) ==
    LET m == CandidateMinute(a)
        currentTotalHours == FloorDiv(tm, MinutesPerHour)
        oldMins == JsRem(tm, MinutesPerHour)
    IN  Normalize24h(currentTotalHours * MinutesPerHour + m + Crossing(oldMins, m))

\* the hour branch of handlePointerMove: the value passed to onTimeChange
HourHandTime(tm, a) ==
    LET isPm == tm >= HalfDay
        newTotalMinutes == MathRound(2 * a, AngleRes)
    IN  WrapFix(IF isPm THEN newTotalMinutes + HalfDay ELSE newTotalMinutes)

Idle == [isDragging |-> FALSE, handType |-> NULL]

\* App.handleTimeChange, the onTimeChange callback
handleTimeChange(newMinutes) ==
    /\ totalMinutes' = newMinutes
    /\ isCorrect' = FALSE
    /\ feedback' = ""

handlePointerDown(handType) ==
    /\ dragState' = [isDragging |-> TRUE, handType |-> handType]
    /\ lastOp' = "pointerDown"
    /\ mins' = NoMins
    /\ adjust' = 0
    /\ UNCHANGED <<totalMinutes, isCorrect, feedback, appVars, normVars, pending>>

handlePointerMove(a) ==
    /\ lastOp' = "pointerMove"
    /\ IF ~dragState.isDragging \/ dragState.handType = NULL
       THEN /\ mins' = NoMins
            /\ adjust' = 0
            /\ UNCHANGED <<totalMinutes, isCorrect, feedback>>
       ELSE IF dragState.handType = "minute"
       THEN /\ mins' = CandidateMinute(a)
            /\ adjust' = Crossing(JsRem(totalMinutes, MinutesPerHour), CandidateMinute(a))
            /\ handleTimeChange(MinuteHandTime(totalMinutes, a))
       ELSE /\ mins' = NoMins
            /\ adjust' = 0
            /\ handleTimeChange(HourHandTime(totalMinutes, a))
    /\ UNCHANGED <<dragState, appVars, normVars>>

\* handlePointerUp without its setDragState call
handlePointerUpNoReset ==
    /\ lastOp' = "pointerUp"
    /\ mins' = NoMins
    /\ adjust' = 0
    /\ UNCHANGED <<dragState, totalMinutes, isCorrect, feedback, appVars, normVars, pending>>

handlePointerUp ==
    /\ dragState' = Idle
    /\ lastOp' = "pointerUp"
    /\ mins' = NoMins
    /\ adjust' = 0
    /\ UNCHANGED <<totalMinutes, isCorrect, feedback, appVars, normVars, pending>>

\* onPointerLeave is bound to the same handler as onPointerUp
handlePointerLeave ==
    /\ dragState' = Idle
    /\ lastOp' = "pointerLeave"
    /\ mins' = NoMins
    /\ adjust' = 0
    /\ UNCHANGED <<totalMinutes, isCorrect, feedback, appVars, normVars, pending>>

---------------------------------------------------------------------------
(* geminiService: the two AI calls, as functions of the service's response *)

\* What ai.models.generateContent can do: reject (a transport failure), or
\* resolve with a response whose text is missing or empty, is not JSON, or
\* is JSON (payload: the parsed value).
Resp(kind, payload) == [kind |-> kind, payload |-> payload]

Returned(v) == [threw |-> FALSE, value |-> v]
Thrown == [threw |-> TRUE, value |-> NoQuestion]

Question(text, h, m, hint) ==
    [questionText |-> text, targetHour |-> h, targetMinute |-> m, hint |-> hint]

\* the fallback question of generateTimeQuestion's catch block
FallbackQuestion ==
    Question("Can you set the clock to 12:00?", 12, 0, "Both hands point up!")

\* a question the service wrote for the target h:m
AIQuestion(h, m) == Question("ai question", h, m, "ai hint")

generateTimeQuestion(resp) ==
    IF resp.kind = "throw" THEN Returned(FallbackQuestion)      \* catch
    ELSE IF resp.kind = "empty" THEN Returned(NoQuestion)             \* if (!text) return null
    ELSE IF resp.kind = "malformed" THEN Returned(FallbackQuestion) \* JSON.parse throws
    ELSE Returned(resp.payload)                                 \* JSON.parse(text)

\* checkAnswer with response.text returned as it is
checkAnswerNoDefault(resp) ==
    IF resp.kind = "throw" THEN Returned("Nice try!")
    ELSE IF resp.kind = "empty" THEN Returned("")
    ELSE Returned(resp.payload)

\* checkAnswer: its four arguments reach only the prompt text, so the
\* result is a function of the response alone
checkAnswer(resp) ==
    IF resp.kind = "throw" THEN Returned("Nice try!")           \* catch
    ELSE IF resp.kind = "empty" THEN Returned("Good try!")      \* response.text || ...
    ELSE Returned(resp.payload)

---------------------------------------------------------------------------
(* App: the quiz controller *)

TargetTotal(q) == q.targetHour * MinutesPerHour + q.targetMinute

\* submitAnswer's test without the wrap-around
DiffNoWrap(tm, q) == Abs(JsRem(tm, MinutesPerDay) - TargetTotal(q))

\* submitAnswer's diffWrapped
DiffWrapped(tm, q) ==
    LET currentNorm == JsRem(tm, MinutesPerDay)
        diff == Abs(currentNorm - TargetTotal(q))
    IN  Min(diff, MinutesPerDay - diff)

\* the question panel is rendered (mode QUIZ, a question, no spinner)
QuestionShown == mode = "QUIZ" /\ currentQuestion # NoQuestion

\* the Check Answer button is rendered and not disabled
SubmitAvailable == QuestionShown /\ ~isCorrect /\ ~isLoading

\* the Next Question button is rendered
NextAvailable == QuestionShown /\ isCorrect

\* the Need a Hint? button is rendered
HintAvailable == QuestionShown /\ ~isCorrect

\* startQuiz up to its await
startQuiz ==
    /\ questionReqs < MaxPending
    /\ mode' = "QUIZ"
    /\ isLoading' = TRUE
    /\ feedback' = ""
    /\ isCorrect' = FALSE
    /\ questionReqs' = questionReqs + 1
    /\ mins' = NoMins
    /\ adjust' = 0
    /\ UNCHANGED <<totalMinutes, currentQuestion, dragState, checkReqs, lastResp, normVars, pending>>

\* the Challenge Me! button: mode !== GameMode.QUIZ && startQuiz()
ChallengeMe ==
    /\ mode # "QUIZ"
    /\ startQuiz
    /\ lastOp' = "challengeMe"

\* the Next Question button
NextQuestion ==
    /\ NextAvailable
    /\ startQuiz
    /\ lastOp' = "nextQuestion"

\* startQuiz after its await: generateTimeQuestion settles
QuestionResolved(resp) ==
    /\ questionReqs > 0
    /\ questionReqs' = questionReqs - 1
    /\ lastResp' = resp
    /\ mins' = NoMins
    /\ adjust' = 0
    /\ LET r == generateTimeQuestion(resp)
       IN  IF r.threw
           THEN /\ lastOp' = "questionRejected"
                /\ UNCHANGED <<currentQuestion, isLoading>>
           ELSE /\ lastOp' = "questionResolved"
                /\ currentQuestion' = r.value
                /\ isLoading' = FALSE
    /\ UNCHANGED <<totalMinutes, mode, feedback, isCorrect, dragState, checkReqs, normVars, pending>>

\* submitAnswer up to its await (the whole of it when the answer is accepted);
\* the feedback text is the source's without its leading emoji
submitAnswer ==
    /\ SubmitAvailable
    /\ lastOp' = "submitAnswer"
    /\ mins' = NoMins
    /\ adjust' = 0
    /\ IF DiffWrapped(totalMinutes, currentQuestion) <= Tolerance
       THEN /\ isCorrect' = TRUE
            /\ feedback' = "Correct! You are a time wizard!"
            /\ UNCHANGED <<isLoading, checkReqs>>
       ELSE /\ checkReqs < MaxPending
            /\ isCorrect' = FALSE
            /\ isLoading' = TRUE
            /\ checkReqs' = checkReqs + 1
            /\ UNCHANGED feedback
    /\ UNCHANGED <<totalMinutes, mode, currentQuestion, dragState, questionReqs,
                   lastResp, normVars, pending>>

\* submitAnswer after its await: checkAnswer settles
CheckResolved(resp) ==
    /\ checkReqs > 0
    /\ checkReqs' = checkReqs - 1
    /\ lastResp' = resp
    /\ mins' = NoMins
    /\ adjust' = 0
    /\ LET r == checkAnswer(resp)
       IN  IF r.threw
           THEN /\ lastOp' = "checkRejected"
                /\ UNCHANGED <<feedback, isLoading>>
           ELSE /\ lastOp' = "checkResolved"
                /\ feedback' = r.value
                /\ isLoading' = FALSE
    /\ UNCHANGED <<totalMinutes, mode, currentQuestion, isCorrect, dragState,
                   questionReqs, normVars, pending>>

\* the Need a Hint? button
showHint ==
    /\ HintAvailable
    /\ feedback' = currentQuestion.hint
    /\ lastOp' = "hint"
    /\ mins' = NoMins
    /\ adjust' = 0
    /\ UNCHANGED <<totalMinutes, isCorrect, dragState, appVars, normVars, pending>>

\* the Play & Explore button
exitQuiz ==
    /\ mode' = "EXPLORE"
    /\ currentQuestion' = NoQuestion
    /\ feedback' = ""
    /\ isCorrect' = FALSE
    /\ lastOp' = "exitQuiz"
    /\ mins' = NoMins
    /\ adjust' = 0
    /\ UNCHANGED <<totalMinutes, isLoading, dragState, questionReqs, checkReqs,
                   lastResp, normVars, pending>>

---------------------------------------------------------------------------
(* DigitalClock: the readout *)

\* Number.prototype.toString for an integer: "-" is the sign
RECURSIVE Digits(_)
Digits(n) == IF n < 10 THEN <<n>> ELSE Digits(n \div 10) \o <<n % 10>>
NumberToString(n) == IF n < 0 THEN <<"-">> \o Digits(-n) ELSE Digits(n)

\* String.prototype.padStart(2, '0')
PadStart2(s) == IF Len(s) < 2 THEN <<0>> \o s ELSE s

\* the 12-hour display without "if (displayHour === 0) displayHour = 12"
DisplayHourNoTwelve(hours) == JsRem(hours, 12)

DisplayHour(hours) ==
    LET displayHour == JsRem(hours, 12)
    IN  IF displayHour = 0 THEN 12 ELSE displayHour

DigitalClock(tm) ==
    LET normalizedMinutes == JsRem(tm, MinutesPerDay)
        hours == FloorDiv(normalizedMinutes, MinutesPerHour)
        minutes == JsRem(normalizedMinutes, MinutesPerHour)
    IN  [period |-> IF hours >= 12 THEN "PM" ELSE "AM",
         displayHour |-> DisplayHour(hours),
         displayMinute |-> PadStart2(NumberToString(minutes))]

---------------------------------------------------------------------------
(* The normalisation steps, applied in isolation to any integer *)

NormalizeWrap ==
    /\ ~normOut.wrapDone
    /\ normOut' = [normOut EXCEPT !.wrapDone = TRUE, !.wrap = Normalize24h(normIn)]
    /\ UNCHANGED <<totalMinutes, isCorrect, feedback, dragState, appVars, lastOp,
                   mins, adjust, normIn, pending>>

NormalizeRem ==
    /\ ~normOut.remDone
    /\ normOut' = [normOut EXCEPT !.remDone = TRUE, !.rem = JsRem(normIn, MinutesPerDay)]
    /\ UNCHANGED <<totalMinutes, isCorrect, feedback, dragState, appVars, lastOp,
                   mins, adjust, normIn, pending>>

---------------------------------------------------------------------------
(* Specifications *)

NoResp == Resp("none", NoQuestion)
NoNorm == [wrapDone |-> FALSE, wrap |-> 0, remDone |-> FALSE, rem |-> 0]

InitWith(tm, md, q, x) ==
    /\ totalMinutes = tm
    /\ mode = md
    /\ currentQuestion = q
    /\ feedback = ""
    /\ isLoading = FALSE
    /\ isCorrect = FALSE
    /\ dragState = Idle
    /\ questionReqs = 0
    /\ checkReqs = 0
    /\ lastOp = "init"
    /\ mins = NoMins
    /\ adjust = 0
    /\ lastResp = NoResp
    /\ normIn = x
    /\ normOut = NoNorm
    /\ pending = NoAngle

\* the state after construction: useState's initial values
Init == InitWith(INITIAL_TIME, "EXPLORE", NoQuestion, 0)

PointerDown == \E h \in {"hour", "minute"} : handlePointerDown(h)
PointerUp == handlePointerUp
PointerLeave == handlePointerLeave

(* SpecClock: the clock alone, under every pointer event and every grid angle *)

PointerMove == (\E a \in Angles : handlePointerMove(a)) /\ UNCHANGED pending

NextClock == PointerDown \/ PointerMove \/ PointerUp \/ PointerLeave

SpecClock == Init /\ [][NextClock]_vars

(* Spec: the whole application.  The pointer angles are a few grid angles   *)
(* (with both crossings and the last grid angle among them) and the service *)
(* answers with one of a few responses.                                     *)

AppAngles == {d * AngleRes : d \in {60, 300}} \cup {FullCircle * AngleRes - 1}

AppTargets == {<<2, 0>>, <<10, 10>>}

QuestionResponses ==
    {Resp("throw", NoQuestion), Resp("empty", NoQuestion), Resp("malformed", NoQuestion)}
    \cup {Resp("json", AIQuestion(t[1], t[2])) : t \in AppTargets}

CheckResponses == {Resp("throw", ""), Resp("empty", ""), Resp("text", "Great job!")}

PointerMoveApp == (\E a \in AppAngles : handlePointerMove(a)) /\ UNCHANGED pending
QuestionSettles == \E resp \in QuestionResponses : QuestionResolved(resp)
CheckSettles == \E resp \in CheckResponses : CheckResolved(resp)

Next ==
    \/ PointerDown
    \/ PointerMoveApp
    \/ PointerUp
    \/ PointerLeave
    \/ ChallengeMe
    \/ NextQuestion
    \/ QuestionSettles
    \/ submitAnswer
    \/ CheckSettles
    \/ showHint
    \/ exitQuiz

Spec == Init /\ [][Next]_vars

(* SpecSubmit: submitAnswer on every displayed time and every target *)

AllTargets == (0 .. 23) \X (0 .. 59)

InitSubmit ==
    \E tm \in 0 .. (MinutesPerDay - 1), t \in AllTargets :
        InitWith(tm, "QUIZ", AIQuestion(t[1], t[2]), 0)

NextSubmit == submitAnswer

SpecSubmit == InitSubmit /\ [][NextSubmit]_vars

(* SpecNorm: the normalisation steps on every integer of -NormRange..NormRange *)

InitNorm == \E x \in (-NormRange) .. NormRange : InitWith(INITIAL_TIME, "EXPLORE", NoQuestion, x)

NextNorm == NormalizeWrap \/ NormalizeRem

SpecNorm == InitNorm /\ [][NextNorm]_vars

(* SpecMinuteMove: one minute-hand move, for every time before it and every *)
(* grid angle of the pointer event                                          *)

InitMinuteMove ==
    \E tm \in 0 .. (MinutesPerDay - 1), a \in Angles :
        /\ totalMinutes = tm
        /\ mode = "EXPLORE"
        /\ currentQuestion = NoQuestion
        /\ feedback = ""
        /\ isLoading = FALSE
        /\ isCorrect = FALSE
        /\ dragState = [isDragging |-> TRUE, handType |-> "minute"]
        /\ questionReqs = 0
        /\ checkReqs = 0
        /\ lastOp = "pointerDown"
        /\ mins = NoMins
        /\ adjust = 0
        /\ lastResp = NoResp
        /\ normIn = 0
        /\ normOut = NoNorm
        /\ pending = a

\* the waiting pointer-move event is handled
DeliverMove ==
    /\ pending # NoAngle
    /\ handlePointerMove(pending)
    /\ pending' = NoAngle

NextMinuteMove == DeliverMove

SpecMinuteMove == InitMinuteMove /\ [][NextMinuteMove]_vars

---------------------------------------------------------------------------
(* Properties *)

MinuteMove == lastOp' = "pointerMove" /\ dragState.isDragging /\ dragState.handType = "minute"
HourMove == lastOp' = "pointerMove" /\ dragState.isDragging /\ dragState.handType = "hour"

\* C1 (SpecClock): from 10:10, after any sequence of pointer-down, pointer-move,
\* pointer-up and pointer-leave events on either hand, the time passed to
\* onTimeChange and stored as totalMinutes is an integer in 0..1439.
C1_TimeInRange == totalMinutes \in 0 .. 1439

\* a backward crossing out of hour 0 has been wrapped to hour 23
C1_Witness ==
    /\ lastOp = "pointerMove"
    /\ dragState.handType = "minute"
    /\ adjust = -60
    /\ totalMinutes = 1439

\* C2 (SpecSubmit): submitAnswer sets isCorrect exactly when
\* min(|d|, 1440 - |d|) <= 2, d being the displayed minutes minus the target's;
\* 23:59 against 00:01 and 10:10 against 10:10 are accepted, 3:05 against 3:00
\* is rejected.
C2_AcceptedIffWithinTolerance ==
    lastOp = "submitAnswer" =>
        LET d == totalMinutes - (currentQuestion.targetHour * 60 + currentQuestion.targetMinute)
            absd == IF d < 0 THEN -d ELSE d
            wrapped == IF absd <= 1440 - absd THEN absd ELSE 1440 - absd
        IN  /\ isCorrect <=> (wrapped <= 2)
            /\ (totalMinutes = 23 * 60 + 59 /\ TargetTotal(currentQuestion) = 1) => isCorrect
            /\ (totalMinutes = 610 /\ TargetTotal(currentQuestion) = 610) => isCorrect
            /\ (totalMinutes = 185 /\ TargetTotal(currentQuestion) = 180) => ~isCorrect

\* 23:59 has been submitted against 00:01 and accepted
C2_Witness ==
    /\ lastOp = "submitAnswer"
    /\ totalMinutes = 1439
    /\ currentQuestion.targetHour = 0
    /\ currentQuestion.targetMinute = 1
    /\ isCorrect

\* C3 (SpecClock): in a minute-hand move whose candidate minute is < 15 when
\* the minute before the move was > 45, the new hour is the hour before the
\* move plus 1 (modulo 24); whose candidate is > 45 when the minute before was
\* < 15, the hour before minus 1 (modulo 24); either way the new minute is the
\* candidate.
C3_CrossingAdjustsHour ==
    [][MinuteMove =>
        LET prevHour == totalMinutes \div 60
            prevMin == totalMinutes % 60
        IN  /\ (prevMin > 45 /\ mins' < 15) =>
                   /\ totalMinutes' \div 60 = (prevHour + 1) % 24
                   /\ totalMinutes' % 60 = mins'
            /\ (prevMin < 15 /\ mins' > 45) =>
                   /\ totalMinutes' \div 60 = (prevHour + 23) % 24
                   /\ totalMinutes' % 60 = mins'
    ]_vars

\* a forward crossing out of hour 23 has arrived at 00:03
C3_Witness ==
    /\ lastOp = "pointerMove"
    /\ dragState.handType = "minute"
    /\ adjust = 60
    /\ mins = 3
    /\ totalMinutes = 3

\* C4 (SpecClock): every hour-hand move, at every angle of [0,360), leaves the
\* time in the 12-hour half it was in: before 720 it stays before 720, from
\* 720 on it stays from 720 on.
C4_HourMoveKeepsHalf ==
    [][HourMove => ((totalMinutes < 720) <=> (totalMinutes' < 720))]_vars

\* C5 (Spec): whenever the question request fails in transport, returns a
\* missing or empty response, or returns text that cannot be parsed,
\* generateTimeQuestion yields the fallback question (12:00, "Both hands point
\* up!"): never no question, never an error.
C5_QuestionFallback ==
    /\ lastOp # "questionRejected"
    /\ (lastOp = "questionResolved" /\ lastResp.kind \in {"throw", "empty", "malformed"}) =>
           /\ currentQuestion # NoQuestion
           /\ currentQuestion.targetHour = 12
           /\ currentQuestion.targetMinute = 0
           /\ currentQuestion.hint = "Both hands point up!"

\* C6 (Spec), as claimed: whenever the evaluation request fails (a transport
\* error or no usable response text), checkAnswer yields the one fallback
\* string "Nice try!" and never raises an error.
C6_SingleFallback ==
    /\ lastOp # "checkRejected"
    /\ (lastOp = "checkResolved" /\ lastResp.kind \in {"throw", "empty"}) =>
           feedback = "Nice try!"

\* C6 (Spec), amended: checkAnswer never raises an error; when the request
\* fails in transport it yields "Nice try!", and when the response has no
\* usable text it yields "Good try!".
C6_TwoFallbacks ==
    /\ lastOp # "checkRejected"
    /\ (lastOp = "checkResolved" /\ lastResp.kind = "throw") => feedback = "Nice try!"
    /\ (lastOp = "checkResolved" /\ lastResp.kind = "empty") => feedback = "Good try!"

\* an evaluation with no usable response text has settled
C6_Witness ==
    /\ lastOp = "checkResolved"
    /\ lastResp.kind = "empty"
    /\ feedback = "Good try!"

\* C7 (Spec): under any interleaving of user actions and request completions,
\* no second question request starts while an earlier one is outstanding.
C7_OneQuestionRequest == questionReqs <= 1

\* C8 (Spec): under any interleaving, the submit action is disabled for as
\* long as an evaluation request is outstanding, so no second evaluation
\* starts before the first has resolved.
C8_SubmitDisabledWhileChecking ==
    /\ checkReqs > 0 => ~SubmitAvailable
    /\ checkReqs <= 1

\* C9 (SpecNorm): the normalisation steps (the wrap of the drag handler, the
\* % 1440 of the readout and of submitAnswer) map every integer, negative ones
\* included, to the value of 0..1439 congruent to it modulo 1440.
C9_NormalizesEveryInteger ==
    /\ normOut.wrapDone =>
           /\ normOut.wrap \in 0 .. 1439
           /\ (normOut.wrap - normIn) % 1440 = 0
    /\ normOut.remDone =>
           /\ normOut.rem \in 0 .. 1439
           /\ (normOut.rem - normIn) % 1440 = 0

\* C10 (SpecClock): for every minute count m of 0..1439 the readout shows AM
\* exactly when floor(m/60) < 12 and PM otherwise, the hour floor(m/60) mod 12
\* with 0 shown as 12 (so an hour of 1..12), and the minute m mod 60.
C10_Readout ==
    LET r == DigitalClock(totalMinutes)
        h == totalMinutes \div 60
    IN  /\ r.period = (IF h < 12 THEN "AM" ELSE "PM")
        /\ r.displayHour = (IF h % 12 = 0 THEN 12 ELSE h % 12)
        /\ r.displayHour \in 1 .. 12
        /\ Len(r.displayMinute) = 2
        /\ r.displayMinute[1] * 10 + r.displayMinute[2] = totalMinutes % 60

\* the hand has been dragged to 12:05 PM
C10_Witness ==
    /\ lastOp = "pointerMove"
    /\ totalMinutes = 725
    /\ DigitalClock(totalMinutes) = [period |-> "PM", displayHour |-> 12, displayMinute |-> <<0, 5>>]

\* C11 (Spec): a question is discarded when the quiz exits: in every reachable
\* state, under any interleaving of user actions and request completions, mode
\* EXPLORE implies that currentQuestion is null.
C11_NoQuestionInExplore == mode = "EXPLORE" => currentQuestion = NoQuestion

\* C12 (Spec): the drag target is always one of none, hour hand, minute hand;
\* pointer-down on a hand makes that hand the target, pointer-up and
\* pointer-leave make it none, and a pointer-move received while it is none
\* leaves the time, the feedback text and the isCorrect flag as they were.
C12_DragTarget ==
    [][/\ dragState' \in {Idle, [isDragging |-> TRUE, handType |-> "hour"],
                          [isDragging |-> TRUE, handType |-> "minute"]}
       /\ lastOp' = "pointerDown" =>
              dragState'.isDragging /\ dragState'.handType \in {"hour", "minute"}
       /\ lastOp' \in {"pointerUp", "pointerLeave"} => dragState' = Idle
       /\ (lastOp' = "pointerMove" /\ dragState = Idle) =>
              /\ totalMinutes' = totalMinutes
              /\ feedback' = feedback
              /\ isCorrect' = isCorrect
    ]_vars

\* a pointer-move has arrived with no drag target while an accepted answer
\* and its feedback were shown
C12_Witness ==
    /\ lastOp = "pointerMove"
    /\ dragState = Idle
    /\ isCorrect
    /\ feedback = "Correct! You are a time wizard!"

\* C14 (Spec): in every reachable state, under any interleaving, isCorrect
\* implies that currentQuestion is not null and that the displayed time is
\* within the 2-minute wrap-around tolerance of that question's target.
C14_CorrectMeansOnTarget ==
    isCorrect =>
        /\ currentQuestion # NoQuestion
        /\ LET d == totalMinutes - (currentQuestion.targetHour * 60 + currentQuestion.targetMinute)
               absd == IF d < 0 THEN -d ELSE d
           IN  absd <= 2 \/ 1440 - absd <= 2

\* C15 (Spec): in every reachable state the loading flag is true exactly when
\* at least one AI request (a question request or an answer evaluation) is
\* outstanding; in particular it is never false while a request is pending.
C15_LoadingIffOutstanding == isLoading <=> (questionReqs + checkReqs > 0)

\* C13 (SpecMinuteMove): a minute-hand move for which neither crossing
\* condition holds (in particular with the minute before it exactly 45 or 15,
\* or the candidate exactly 15 or 45) keeps the hour and sets the minute to
\* the candidate round(angle/6) mod 60: the new time is
\* floor(old/60)*60 + candidate.
C13_NoCrossingKeepsHour ==
    [][(pending # NoAngle /\ pending' = NoAngle) =>
        LET prevMin == totalMinutes % 60
            \* the integer nearest to angle/6, a tie going up: angle/6 rounded
            \* down, or the next integer; angle = pending/AngleRes
            below == pending \div (6 * AngleRes)
            nearest == CHOOSE k \in {below, below + 1} :
                           /\ 6 * AngleRes * (2 * k - 1) <= 2 * pending
                           /\ 2 * pending < 6 * AngleRes * (2 * k + 1)
            candidate == nearest % 60
        IN  (~(prevMin > 45 /\ candidate < 15) /\ ~(prevMin < 15 /\ candidate > 45)) =>
                totalMinutes' = (totalMinutes \div 60) * 60 + candidate
    ]_vars

\* a move to the candidate minute 45, which no crossing condition admits,
\* has been handled
C13_Witness ==
    /\ pending = NoAngle
    /\ lastOp = "pointerMove"
    /\ mins = 45
    /\ adjust = 0
    /\ totalMinutes = 14 * 60 + 45

===========================================================================
